---- MODULE Spec2Model ----
(***************************************************************************)
(* Farm Navigators: the map/setup page (MapPage), its weather              *)
(* preprocessor (the Hargreaves ETo and the available-water balance) and   *)
(* the daily simulation (FarmScene inside FarmGame).                       *)
(*                                                                         *)
(* Numbers.  The program computes in IEEE doubles; the model computes in   *)
(* fixed point and truncates where the program would keep more digits:     *)
(*   - every FarmScene percentage, money and marketPrice: hundredths;      *)
(*   - precipitation and temperatures: hundredths (mm, deg C);             *)
(*   - ETo: thousandths of a mm; crop coefficients: hundredths;            *)
(*   - available water (aw): 1/100000 mm, so that eto * kc is exact.       *)
(* NaN and null are two integers no computation of the model produces.     *)
(***************************************************************************)
EXTENDS Integers, Sequences, FiniteSets, TLC

VARIABLES
    \* ---- MapPage: React state and the click handlers in flight ----
    location,           \* useState(null): "none" or the clicked place
    locationName,       \* useState("")
    data,               \* useState(null): NoData or the object given to setData
    loading,            \* useState(false)
    error,              \* useState("")
    days,               \* useState(5)
    crop,               \* useState("maize")
    requests,           \* one record per click, in click order
    \* ---- the soil-moisture loop of the click handler, day by day ----
    kc,                 \* const kc
    aw,                 \* let aw
    eto_series,         \* const eto_series
    soil_series,        \* const soil_series
    \* ---- FarmScene fields (FarmGame.jsx) ----
    rainPattern,        \* this.rainPattern: one label per day
    day,                \* this.day
    money,              \* this.money            (hundredths)
    sustainability,     \* this.sustainability   (hundredths)
    pests,              \* this.pests            (hundredths)
    nitrogen,           \* this.nitrogen         (hundredths)
    cropHealth,         \* this.cropHealth       (hundredths)
    marketPrice,        \* this.marketPrice      (hundredths)
    soilMoisture,       \* this.soilMoisture     (hundredths)
    actionsTakenToday,  \* this.actionsTakenToday
    \* ---- the application around the two screens ----
    route,              \* the Router's path: "/" (MapPage) or "/farm" (FarmGame)
    storage,            \* localStorage: the keys written by handleStartGame
    game,               \* gameRef.current is a Phaser.Game
    \* ---- createFarmSim (farm-sim.js) ----
    rainfallLevels,     \* let rainfallLevels
    vals,               \* const vals of the last fetchNasaPower answer
    showEndModal,       \* React state of FarmGame: the end-of-season modal
    endSummary,         \* React state of FarmGame: "" or the final figures
    \* ---- bookkeeping of the calls made so far ----
    lastCall,           \* the last handler that ran: "init", "handleAction", "nextDay"
    steps,              \* handleAction calls that got past the guard
    nextDayCalls        \* nextDay calls made

farmVars == <<rainPattern, day, money, sustainability, pests, nitrogen,
              cropHealth, marketPrice, soilMoisture, actionsTakenToday>>

uiVars == <<showEndModal, endSummary>>

callVars == <<lastCall, steps, nextDayCalls>>

mapVars == <<location, locationName, data, loading, error, days, crop, requests>>

loopVars == <<kc, aw, eto_series, soil_series>>

appVars == <<route, storage, game>>

simVars == <<rainfallLevels, vals>>

vars == <<mapVars, loopVars, farmVars, uiVars, callVars, appVars, simVars>>

-----------------------------------------------------------------------------
\* Bounds of the model.

\* Longest precipitation series handed to the simulation.
MaxDays == 2

\* handleAction calls explored in one season.
MaxSteps == 2

\* Days of a series run through the soil-moisture loop one by one.
MaxSeries == 3

-----------------------------------------------------------------------------
\* Small helpers.

Min(a, b) == IF a < b THEN a ELSE b

Max(a, b) == IF a > b THEN a ELSE b

\* Phaser.Math.Clamp(value, min, max) = Math.max(min, Math.min(max, value))
Clamp(v, lo, hi) == Max(lo, Min(hi, v))

\* JavaScript's NaN and null, as integers outside every range of the model.
NaN == 0 - 999999999

Null == 0 - 888888888

IsNaN(x) == x = NaN

InRange(x, lo, hi) == lo <= x /\ x <= hi

-----------------------------------------------------------------------------
\* Weather preprocessor (MapPage, the click handler of LocationMarker).

\* const fc_mm = 150
fc_mm == 150

\* One mm of water in the unit of aw (1/100000 mm).
UnitsPerMm == 100000

\* Math.sqrt on a non-negative integer, truncated: bisection in lo..hi.
RECURSIVE SqrtIter(_, _, _)
SqrtIter(n, lo, hi) ==
    IF lo >= hi THEN lo
    ELSE LET mid == (lo + hi + 1) \div 2
         IN  IF mid * mid <= n THEN SqrtIter(n, mid, hi)
                               ELSE SqrtIter(n, lo, mid - 1)

ISqrt(n) == SqrtIter(n, 0, 4000)

\* hargreavesETo(tmin, tmax, Ra): 0.0023 * (tmean + 17.8) * sqrt(deltaT) * Ra.
\* tmin, tmax, Ra in hundredths; the result in thousandths of a mm.  Ra comes
\* from computeRa, whose Math.acos yields NaN where |tan(lat) tan(delta)| > 1
\* (polar day and polar night); NaN then runs through the product.
hargreavesETo(tmin, tmax, Ra) ==
    IF IsNaN(Ra) THEN NaN
    ELSE LET twoTmeanPlus == tmin + tmax + 3560      \* 2 * (tmean + 17.8)
             deltaT       == Max(0, tmax - tmin)
             sqrtDeltaT   == ISqrt(deltaT * 100)      \* hundredths
         IN  (((23 * twoTmeanPlus * sqrtDeltaT) \div 1000) * Ra) \div 20000

\* let eto = (tmx !== null && tmn !== null) ? hargreavesETo(...) : 0
DayETo(w) ==
    IF w.tmx # Null /\ w.tmn # Null
    THEN hargreavesETo(w.tmn, w.tmx, w.Ra)
    ELSE 0

\* kc_map[crop] || kc_map.default   (hundredths)
KcOf(c) ==
    CASE c = "maize" -> 115
      [] c = "wheat" -> 80
      [] c = "grass" -> 100
      [] OTHER       -> 100

\* One pass of the loop body on the running balance: aw += pr;
\* actual_et = Math.min(aw, eto * kc); aw -= actual_et; the two ifs.
\* Math.min with a NaN argument is NaN, and both comparisons are false on NaN.
BalanceDay(water, pr, eto, coeff) ==
    IF IsNaN(water) \/ IsNaN(eto) THEN NaN
    ELSE LET aw1       == water + pr * (UnitsPerMm \div 100)
             etc       == eto * coeff
             actual_et == Min(aw1, etc)
             aw2       == aw1 - actual_et
         IN  IF aw2 > fc_mm * UnitsPerMm THEN fc_mm * UnitsPerMm
             ELSE IF aw2 < 0 THEN 0
             ELSE aw2

\* +aw.toFixed(2): to the nearest hundredth of a mm (aw is never negative here).
ToFixed2(x) == IF IsNaN(x) THEN NaN ELSE (x + 500) \div 1000

\* The running balance after each day of the series wx, starting from water.
RECURSIVE BalanceSeries(_, _, _)
BalanceSeries(wx, water, coeff) ==
    IF wx = <<>> THEN <<>>
    ELSE LET w   == Head(wx)
             aw2 == BalanceDay(water, w.pr, DayETo(w), coeff)
         IN  <<aw2>> \o BalanceSeries(Tail(wx), aw2, coeff)

\* setData({ ..., precip, eto, soil_moisture, ... }) for the parsed series wx.
MakeData(wx, c) ==
    LET bal == BalanceSeries(wx, (fc_mm * UnitsPerMm) \div 2, KcOf(c))
    IN  [precip        |-> [i \in 1..Len(wx) |-> wx[i].pr],
         eto           |-> [i \in 1..Len(wx) |-> DayETo(wx[i])],
         soil_moisture |-> [i \in 1..Len(wx) |-> ToFixed2(bal[i])],
         isNull        |-> FALSE]

\* JSON.parse(JSON.stringify(x)) on a number: NaN is written as null.
JsonNumber(x) == IF IsNaN(x) THEN Null ELSE x

\* JSON.parse(localStorage.getItem("weatherData")) of a stored data object.
JsonData(d) ==
    [precip        |-> d.precip,
     eto           |-> [i \in 1..Len(d.eto) |-> JsonNumber(d.eto[i])],
     soil_moisture |-> [i \in 1..Len(d.soil_moisture) |-> JsonNumber(d.soil_moisture[i])],
     isNull        |-> d.isNull]

\* Inputs: what the upstream service and computeRa can hand the loop for a day.
PrecipValues == {0, 150, 600, 5000}

TempPairs == {<<Null, Null>>, <<2000, 3000>>, <<-3000, -2500>>}

RaValues == {3500, NaN}

UpstreamDays ==
    {[pr |-> p, tmn |-> t[1], tmx |-> t[2], Ra |-> r] :
        p \in PrecipValues, t \in TempPairs, r \in RaValues}

Crops == {"maize", "rice", "wheat", "soybean", "cassava"}

\* The value of data before setData(...) and after setData(null).
NoData == [precip |-> <<>>, eto |-> <<>>, soil_moisture |-> <<>>, isNull |-> TRUE]

\* MapPage's useState(...) initial values; no click handler running.
MapPageInitial ==
    /\ location = "none"
    /\ locationName = ""
    /\ data = NoData
    /\ loading = FALSE
    /\ error = ""
    /\ days = 5
    /\ crop = "maize"
    /\ requests = <<>>

\* The soil-moisture loop is not running.
LoopNotRunning ==
    /\ kc = 0
    /\ aw = 0
    /\ eto_series = <<>>
    /\ soil_series = <<>>

\* localStorage with none of the keys of handleStartGame: getItem returns null.
\* selectedCrop and selectedLocationName are read with || "...", which takes ""
\* and null alike; JSON.parse(null) is null, as is JSON.parse("null").
StorageEmpty ==
    [selectedCrop         |-> "",
     selectedDays         |-> Null,
     selectedLocationName |-> "",
     weatherData          |-> NoData]

\* localStorage after handleStartGame's setItem calls (selectedLocation, which
\* nothing reads, left out); weatherData as JSON.parse will return it.
HandoffOf(cropSel, daysSel, name, d) ==
    [selectedCrop         |-> cropSel,
     selectedDays         |-> daysSel,
     selectedLocationName |-> name,
     weatherData          |-> JsonData(d)]

\* FarmGame is on screen with its Phaser.Game built from the handoff stored.
AppPlaying(stored) ==
    /\ route = "/farm"
    /\ storage = stored
    /\ game = TRUE

\* MapPage is on screen, nothing stored yet, no Phaser.Game.
AppOnSetup ==
    /\ route = "/"
    /\ storage = StorageEmpty
    /\ game = FALSE

\* createFarmSim has not been called.
FarmSimNotCreated ==
    /\ rainfallLevels = <<>>
    /\ vals = <<>>

-----------------------------------------------------------------------------
\* FarmGame: the simulation screen.

\* data.precip.map((mm) => ...): the 4-level rain label of a day (mm in hundredths).
rainLabel(mm) ==
    IF mm = 0 THEN "none"
    ELSE IF mm < 300 THEN "low"
    ELSE IF mm < 1000 THEN "medium"
    ELSE "high"

Actions == {"Irrigate", "Fertilize", "Scout", "Wait"}

\* Phaser.Math.Between(5, 15), Phaser.Math.Between(0, 5) and
\* Phaser.Math.FloatBetween(-0.05, 0.05) (hundredths): the draws explored.
ScoutDraws == {5, 15}

PestGrowthDraws == {0, 5}

PriceDrifts == {-5, 5}

\* if (this.day > this.rainPattern.length) return;
SeasonOver_OffByOne(d, n) == d > n + 1

SeasonOver(d, n) == d > n

\* this.rainPattern[this.day - 1] || "medium"
RainToday == IF day \in DOMAIN rainPattern THEN rainPattern[day] ELSE "medium"

\* "Update soil moisture based on rain"
RainDelta_LowRainWets(rain) ==
    CASE rain = "none"   -> -700
      [] rain = "low"    -> 500
      [] rain = "medium" -> 600
      [] OTHER           -> 1200

RainDelta(rain) ==
    CASE rain = "none"   -> -700
      [] rain = "low"    -> -500
      [] rain = "medium" -> 600
      [] OTHER           -> 1200

\* case "Irrigate": this.soilMoisture += 10
IrrigateGain(action) == IF action = "Irrigate" THEN 1000 ELSE 0

\* soilMoisture at the end of handleAction: rain delta, action delta, one Clamp.
SoilAfter_ClampTwice(sm, rain, action) ==
    Clamp(Clamp(sm + RainDelta(rain), 0, 10000) + IrrigateGain(action), 0, 10000)

SoilAfter(sm, rain, action) ==
    Clamp(sm + RainDelta(rain) + IrrigateGain(action), 0, 10000)

\* case "Fertilize": this.nitrogen += 12, and the Clamp after the switch
NitrogenAfter(n, action) ==
    Clamp(n + (IF action = "Fertilize" THEN 1200 ELSE 0), 0, 10000)

\* this.money -= 3 / 2 / 1
ActionCost(action) ==
    CASE action = "Irrigate"  -> 300
      [] action = "Fertilize" -> 200
      [] action = "Scout"     -> 100
      [] OTHER                -> 0

\* if (rain !== "low" && rain !== "none") this.sustainability -= 2;
\* if (rain === "high") this.sustainability -= 3;
SustainabilityPenalty_AnyRain(action, rain) ==
    CASE action = "Irrigate"  -> IF rain # "none" THEN 200 ELSE 0
      [] action = "Fertilize" -> IF rain = "high" THEN 300 ELSE 0
      [] OTHER                -> 0

SustainabilityPenalty(action, rain) ==
    CASE action = "Irrigate"  -> IF rain # "low" /\ rain # "none" THEN 200 ELSE 0
      [] action = "Fertilize" -> IF rain = "high" THEN 300 ELSE 0
      [] OTHER                -> 0

\* case "Scout": Clamp(this.pests - pestReduction, 0, 100)
PestsAfterAction(p, action, pestReduction) ==
    IF action = "Scout" THEN Clamp(p - 100 * pestReduction, 0, 10000) ELSE p

\* pestGrowth = Between(0, 5) + (100 - this.cropHealth) / 20, then the Clamp
PestsAfterGrowth(p, draw, ch) ==
    Clamp(p + 100 * draw + (10000 - ch) \div 20, 0, 10000)

\* Clamp((soilMoisture * 0.4 + nitrogen * 0.4 + (100 - pests) * 0.2) / 1.5, 0, 100)
CropHealthOf_WrongWeights(sm, n, p) ==
    Clamp((4 * sm + 3 * n + 3 * (10000 - p)) \div 15, 0, 10000)

CropHealthOf_NoScaling(sm, n, p) ==
    Clamp((4 * sm + 4 * n + 2 * (10000 - p)) \div 10, 0, 10000)

CropHealthOf(sm, n, p) ==
    Clamp((4 * sm + 4 * n + 2 * (10000 - p)) \div 15, 0, 10000)

\* "Update money based on crop health"
Revenue_NoMiddleTier(ch, price) == IF ch > 7000 THEN 4 * price ELSE 0

Revenue(ch, price) ==
    IF ch > 7000 THEN 4 * price
    ELSE IF ch > 4000 THEN 2 * price
    ELSE 0

\* The fields FarmScene.init() sets, with stored =
\* JSON.parse(localStorage.getItem("weatherData")).
SceneAtInit(stored) ==
    [rainPattern       |-> [i \in 1..Len(stored.precip) |-> rainLabel(stored.precip[i])],
     day               |-> 1,
     money             |-> 2000,
     sustainability    |-> 8000,
     pests             |-> 1500,
     nitrogen          |-> 4500,
     cropHealth        |-> 7000,
     marketPrice       |-> 100,
     soilMoisture      |->
         (IF stored.soil_moisture = <<>>                     \* ...?.[0] is undefined
             \/ stored.soil_moisture[1] \in {Null, NaN, 0}   \* ... || 55
          THEN 5500 ELSE stored.soil_moisture[1]),
     actionsTakenToday |-> <<>>]

\* The scene just after FarmScene.init().
FarmInit(stored) ==
    LET scene == SceneAtInit(stored)
    IN  /\ rainPattern = scene.rainPattern
        /\ day = scene.day
        /\ money = scene.money
        /\ sustainability = scene.sustainability
        /\ pests = scene.pests
        /\ nitrogen = scene.nitrogen
        /\ cropHealth = scene.cropHealth
        /\ marketPrice = scene.marketPrice
        /\ soilMoisture = scene.soilMoisture
        /\ actionsTakenToday = scene.actionsTakenToday

\* FarmScene.handleAction(action); the three draws are the results of the
\* Phaser random calls made on the way.
HandleAction(action, pestReduction, growthDraw, drift) ==
    /\ lastCall' = "handleAction"
    /\ UNCHANGED <<nextDayCalls, uiVars, rainPattern, day, mapVars, loopVars,
                   appVars, simVars>>
    /\ IF SeasonOver(day, Len(rainPattern))
       THEN UNCHANGED <<money, sustainability, pests, nitrogen, cropHealth,
                        marketPrice, soilMoisture, actionsTakenToday, steps>>
       ELSE LET rain == RainToday
                p1   == PestsAfterAction(pests, action, pestReduction)
                p2   == PestsAfterGrowth(p1, growthDraw, cropHealth)
                sm2  == SoilAfter(soilMoisture, rain, action)
                n2   == NitrogenAfter(nitrogen, action)
                ch2  == CropHealthOf(sm2, n2, p2)
            IN  /\ steps' = steps + 1
                /\ actionsTakenToday' = Append(actionsTakenToday, action)
                /\ sustainability' = sustainability - SustainabilityPenalty(action, rain)
                /\ pests' = p2
                /\ soilMoisture' = sm2
                /\ nitrogen' = n2
                /\ cropHealth' = ch2
                /\ money' = money - ActionCost(action) + Revenue(ch2, marketPrice)
                /\ marketPrice' = Clamp(marketPrice + drift, 80, 150)

\* FarmScene.nextDay()
NextDay ==
    /\ lastCall' = "nextDay"
    /\ nextDayCalls' = nextDayCalls + 1
    /\ UNCHANGED <<mapVars, loopVars, appVars, simVars>>
    /\ UNCHANGED <<rainPattern, money, sustainability, pests, nitrogen,
                   cropHealth, marketPrice, soilMoisture, steps>>
    /\ IF SeasonOver(day, Len(rainPattern))
       THEN UNCHANGED <<day, actionsTakenToday, uiVars>>
       ELSE /\ actionsTakenToday' = <<>>
            /\ day' = day + 1
            /\ IF SeasonOver(day + 1, Len(rainPattern))
               THEN /\ endSummary' = <<money, sustainability, cropHealth>>
                    /\ showEndModal' = TRUE
               ELSE UNCHANGED uiVars

-----------------------------------------------------------------------------
\* The simulation from any preprocessor output of up to MaxDays days.

\* The upstream days the simulation is started from: those that come without
\* temperature data (tmax.push(null), ETo = 0), one per precipitation value.
FarmDays == {w \in UpstreamDays : w.tmx = Null /\ w.tmn = Null /\ ~IsNaN(w.Ra)}

\* Every series of n such days.
RECURSIVE SeriesOfLen(_)
SeriesOfLen(n) ==
    IF n = 0 THEN {<<>>}
    ELSE {<<w>> \o s : w \in FarmDays, s \in SeriesOfLen(n - 1)}

\* FarmGame just mounted: nothing clicked yet, no modal.
NoCallYet ==
    /\ showEndModal = FALSE
    /\ endSummary = <<>>
    /\ lastCall = "init"
    /\ steps = 0
    /\ nextDayCalls = 0

\* FarmGame is not mounted: no FarmScene exists.
FarmNotMounted ==
    /\ rainPattern = <<>>
    /\ day = 0
    /\ money = 0
    /\ sustainability = 0
    /\ pests = 0
    /\ nitrogen = 0
    /\ cropHealth = 0
    /\ marketPrice = 0
    /\ soilMoisture = 0
    /\ actionsTakenToday = <<>>
    /\ NoCallYet

Init ==
    /\ MapPageInitial
    /\ LoopNotRunning
    /\ \E wx \in SeriesOfLen(MaxDays) : \E c \in Crops :
          /\ AppPlaying(HandoffOf(crop, days, locationName, MakeData(wx, c)))
          /\ FarmInit(JsonData(MakeData(wx, c)))
    /\ FarmSimNotCreated
    /\ NoCallYet

\* if (!data || !data.precip): the stored weatherData is null (or the key is
\* absent), or it is an object without a precip series.
HandoffMissing_OnlyWithoutPrecip(d) == "precip" \notin DOMAIN d

HandoffMissing(d) == d.isNull \/ "precip" \notin DOMAIN d

\* FarmGame's useEffect, run once when the route /farm mounts the component:
\* alert and navigate("/") without building anything when the handoff is
\* missing, else gameRef.current = new Phaser.Game(config), whose scene runs
\* init() and creates the buttons.  navigate("/") mounts a new MapPage.
FarmGameMounts ==
    /\ route = "/farm"
    /\ ~game
    /\ lastCall # "redirect"
    /\ IF HandoffMissing(storage.weatherData)
       THEN /\ route' = "/"
            /\ lastCall' = "redirect"
            /\ UNCHANGED <<game, farmVars, steps, nextDayCalls>>
       ELSE /\ game' = TRUE
            /\ LET scene == SceneAtInit(storage.weatherData)
               IN  /\ rainPattern' = scene.rainPattern
                   /\ day' = scene.day
                   /\ money' = scene.money
                   /\ sustainability' = scene.sustainability
                   /\ pests' = scene.pests
                   /\ nitrogen' = scene.nitrogen
                   /\ cropHealth' = scene.cropHealth
                   /\ marketPrice' = scene.marketPrice
                   /\ soilMoisture' = scene.soilMoisture
                   /\ actionsTakenToday' = scene.actionsTakenToday
            /\ lastCall' = "init"
            /\ UNCHANGED <<route, steps, nextDayCalls>>
    /\ UNCHANGED <<storage, mapVars, loopVars, uiVars, simVars>>

\* A click on one of the four action buttons of the scene.
ClickAction ==
    /\ game
    /\ steps < MaxSteps
    /\ \E a \in Actions :
       \E r \in (IF a = "Scout" THEN ScoutDraws ELSE {0}) :
       \E g \in PestGrowthDraws :
       \E f \in PriceDrifts :
          HandleAction(a, r, g, f)

\* A click on "Next Day", as many times as the season has days.
ClickNextDay ==
    /\ game
    /\ nextDayCalls < Len(rainPattern)
    /\ NextDay

Next == ClickAction \/ ClickNextDay

Spec == Init /\ [][Next]_vars

-----------------------------------------------------------------------------
\* Entering the simulation screen: the route /farm opened with whatever the
\* browser's localStorage holds, then the scene's buttons if there is a scene.

\* weatherData stored as an object that has no precip member.
WithoutPrecip == [isNull |-> FALSE]

StoredAtEntry ==
    {StorageEmpty,
     [StorageEmpty EXCEPT !.selectedCrop = "rice", !.selectedDays = 5],
     [StorageEmpty EXCEPT !.weatherData = WithoutPrecip]}
    \cup {HandoffOf("maize", 5, "Place A", MakeData(wx, "maize")) :
             wx \in SeriesOfLen(MaxDays)}

InitEnter ==
    /\ MapPageInitial
    /\ LoopNotRunning
    /\ FarmNotMounted
    /\ FarmSimNotCreated
    /\ route = "/farm"
    /\ game = FALSE
    /\ storage \in StoredAtEntry

NextEnter == FarmGameMounts \/ ClickAction \/ ClickNextDay

SpecEnter == InitEnter /\ [][NextEnter]_vars

\* C12: when the simulation screen is entered and the stored handoff is absent
\* (no weatherData, or a weatherData without precip), no Phaser.Game and no
\* FarmScene is ever built, no handleAction or nextDay call is made, and once
\* the mount effect has run the route is back at the setup screen.
C12_MissingHandoffRedirects ==
    storage.weatherData \in {NoData, WithoutPrecip} =>
        /\ ~game
        /\ rainPattern = <<>> /\ day = 0
        /\ steps = 0 /\ nextDayCalls = 0
        /\ lastCall \in {"init", "redirect"}
        /\ (lastCall = "redirect") <=> (route = "/")

C12_Witness ==
    /\ storage.weatherData = WithoutPrecip
    /\ lastCall = "redirect"
    /\ route = "/"

-----------------------------------------------------------------------------
\* The two rainfall classifiers: FarmGame's data.precip.map(...) on the stored
\* series, and rainfallToLevel of createFarmSim on a POWER answer.

\* function rainfallToLevel(mm)   (mm in hundredths)
rainfallToLevel(mm) ==
    IF mm < 200 THEN "low"
    ELSE IF mm < 1000 THEN "medium"
    ELSE "high"

\* PRECTOT values as the service can send them: the thresholds of the two
\* classifiers and their neighbours, and the negative number (-999) it sends
\* for a day it has no value for.  Neither reader filters any of them:
\* precObj[key] ?? 0 and Number(v) pass every number on.
ClassifierInputs == {0 - 99900, 0, 199, 200, 299, 300, 999, 1000}

\* A day of the stored series with precipitation p and no temperatures.
DayOfPrecip(p) == [pr |-> p, tmn |-> Null, tmx |-> Null, Ra |-> 3500]

RECURSIVE PrecipSeries(_)
PrecipSeries(n) ==
    IF n = 0 THEN {<<>>}
    ELSE {<<p>> \o s : p \in ClassifierInputs, s \in PrecipSeries(n - 1)}

\* let rainfallLevels = Array(days).fill("medium")
CreateFarmSim(n) ==
    /\ rainfallLevels = [i \in 1..n |-> "medium"]
    /\ vals = <<>>

\* fetchNasaPower, from the answer on: vals = Object.values(... PRECTOT || {});
\* if (vals.length) rainfallLevels = vals.map(rainfallToLevel).slice(0, days).
\* A rejected fetch or an unparsable body only alerts: nothing is assigned.
FetchNasaPowerAnswers(v, n) ==
    /\ vals' = v
    /\ rainfallLevels' =
          (IF Len(v) > 0
           THEN [i \in 1..Min(Len(v), n) |-> rainfallToLevel(v[i])]
           ELSE rainfallLevels)
    /\ UNCHANGED <<mapVars, loopVars, farmVars, uiVars, callVars, appVars>>

InitClassify ==
    /\ MapPageInitial
    /\ LoopNotRunning
    /\ FarmNotMounted
    /\ route = "/farm"
    /\ game = FALSE
    /\ \E ps \in PrecipSeries(MaxDays) :
          storage = HandoffOf(crop, days, locationName,
                              MakeData([i \in 1..MaxDays |-> DayOfPrecip(ps[i])], crop))
    /\ CreateFarmSim(MaxDays)

\* The "Use Live Data" button, answered with as many values as days, or none.
UseLiveData ==
    /\ vals = <<>>
    /\ \E v \in PrecipSeries(MaxDays) \cup {<<>>} : FetchNasaPowerAnswers(v, MaxDays)

NextClassify == FarmGameMounts \/ UseLiveData

SpecClassify == InitClassify /\ [][NextClassify]_vars

\* none < low < medium < high
Rank(label) ==
    CASE label = "none"   -> 0
      [] label = "low"    -> 1
      [] label = "medium" -> 2
      [] OTHER            -> 3

\* The labels of FarmGame never go down as the stored precipitation goes up.
RainPatternMonotone(lowest) ==
    game =>
        \A i, j \in DOMAIN rainPattern :
            LET precip == storage.weatherData.precip
            IN  (lowest <= precip[i] /\ precip[i] <= precip[j])
                    => Rank(rainPattern[i]) <= Rank(rainPattern[j])

\* The labels of rainfallToLevel never go down as the value goes up.
RainfallLevelsMonotone ==
    vals # <<>> =>
        \A i, j \in DOMAIN rainfallLevels :
            vals[i] <= vals[j] => Rank(rainfallLevels[i]) <= Rank(rainfallLevels[j])

\* C11: for every two precipitation values that reach a classifier, the larger
\* one gets a label at least as intense as the smaller one (equal values get
\* equal labels), in FarmGame's 4-level mapping and in rainfallToLevel.
C11_RainLabelMonotone ==
    /\ RainPatternMonotone(0 - 99900)
    /\ RainfallLevelsMonotone

\* What does hold: rainfallToLevel is monotone on every value, and FarmGame's
\* mapping is monotone on the values from 0 up.
RainLabelMonotoneFromZero ==
    /\ RainPatternMonotone(0)
    /\ RainfallLevelsMonotone

-----------------------------------------------------------------------------
\* A wet season of the longest length the setup page offers, in which the
\* player fertilizes at most once a day, Phaser.Math.Between(0, 5) returns 5 and
\* Phaser.Math.FloatBetween(-0.05, 0.05) returns -0.05 each time: some of the
\* program's runs, enough to follow one season to its end.

\* The largest option of the "Simulation Days" selector.
LongestSeason == 30

WetDay == [pr |-> 5000, tmn |-> Null, tmx |-> Null, Ra |-> 3500]

InitWetSeason ==
    /\ MapPageInitial
    /\ LoopNotRunning
    /\ AppPlaying(HandoffOf(crop, LongestSeason, locationName,
                             MakeData([i \in 1..LongestSeason |-> WetDay], "maize")))
    /\ FarmInit(JsonData(MakeData([i \in 1..LongestSeason |-> WetDay], "maize")))
    /\ FarmSimNotCreated
    /\ NoCallYet

FertilizeOnceToday ==
    /\ actionsTakenToday = <<>>
    /\ HandleAction("Fertilize", 0, 5, -5)

NextWetSeason == FertilizeOnceToday \/ ClickNextDay

SpecWetSeason == InitWetSeason /\ [][NextWetSeason]_vars

-----------------------------------------------------------------------------
\* The scenario of one medium-rain day: soilMoisture 55, nitrogen 40,
\* pests 10, money 10, any cropHealth and marketPrice in range.

\* A day of 6 mm whose soil-moisture entry is stored as null, so that init()
\* takes its default of 55.
ScenarioDay == [pr |-> 600, tmn |-> 2000, tmx |-> 3000, Ra |-> NaN]

InitScenario ==
    /\ MapPageInitial
    /\ LoopNotRunning
    /\ AppPlaying(HandoffOf(crop, days, locationName, MakeData(<<ScenarioDay>>, crop)))
    /\ FarmSimNotCreated
    /\ NoCallYet
    /\ rainPattern = <<"medium">>
    /\ day = 1
    /\ money = 1000
    /\ sustainability \in {8000, 10000}
    /\ pests = 1000
    /\ nitrogen = 4000
    /\ cropHealth \in {1000 * k : k \in 0..10}
    /\ marketPrice \in {80 + 10 * k : k \in 0..7}
    /\ soilMoisture = 5500
    /\ actionsTakenToday = <<>>

SpecScenario == InitScenario /\ [][Next]_vars

-----------------------------------------------------------------------------
\* MapPage: map clicks and the asynchronous click handlers they start.

\* Clicks explored on the map.
MaxClicks == 2

\* Two places on the map.
Locations == {"A", "B"}

\* geoRes.data.display_name for a place.
PlaceOf(l) == IF l = "A" THEN "Place A" ELSE "Place B"

\* What the POWER service returns for a place: a function of latitude,
\* longitude and dates, so the same for every request for that place.
DayAt(l) ==
    IF l = "A" THEN [pr |-> 600, tmn |-> 2000, tmx |-> 3000, Ra |-> 3500]
               ELSE [pr |-> 0, tmn |-> Null, tmx |-> Null, Ra |-> 3500]

WeatherAt(l, n) == [i \in 1..n |-> DayAt(l)]

\* The object a request hands to setData when both of its fetches succeed.
DataOf(r) == MakeData(WeatherAt(r.loc, r.ndates), r.crop)

\* click: async (e) => { ... up to the first await
MapClick(l) ==
    /\ location' = l
    /\ error' = ""
    /\ data' = NoData
    /\ loading' = TRUE
    /\ requests' = Append(requests,
          [loc |-> l, days |-> days, crop |-> crop, ndates |-> 0,
           pc |-> "geocode", outcome |-> "pending", failedAt |-> ""])
    /\ UNCHANGED <<locationName, days, crop, loopVars, farmVars, uiVars, callVars,
                   appVars, simVars>>

\* The reverse-geocoding request of click i resolves: setLocationName(place), and
\* the handler runs on to the POWER request.  The loop over the dates makes
\* days of them, or days - 1 when the clock ticked between the two new Date().
GeocodeResolves(i, n) ==
    /\ requests[i].pc = "geocode"
    /\ locationName' = PlaceOf(requests[i].loc)
    /\ requests' = [requests EXCEPT ![i].pc = "power", ![i].ndates = n]
    /\ UNCHANGED <<location, data, loading, error, days, crop,
                   loopVars, farmVars, uiVars, callVars, appVars, simVars>>

\* Either request of click i rejects (or its answer lacks the fields read):
\* catch { setError(...) } finally { setLoading(false) }
FetchRejects(i) ==
    /\ requests[i].pc \in {"geocode", "power"}
    /\ error' = "Failed to load NASA data"
    /\ loading' = FALSE
    /\ requests' = [requests EXCEPT ![i].pc = "done", ![i].outcome = "failed",
                                    ![i].failedAt = requests[i].pc]
    /\ UNCHANGED <<location, locationName, data, days, crop,
                   loopVars, farmVars, uiVars, callVars, appVars, simVars>>

\* The POWER request of click i resolves: parse, compute, setData(...), and
\* finally { setLoading(false) }
PowerResolves(i) ==
    /\ requests[i].pc = "power"
    /\ data' = DataOf(requests[i])
    /\ loading' = FALSE
    /\ requests' = [requests EXCEPT ![i].pc = "done", ![i].outcome = "ok"]
    /\ UNCHANGED <<location, locationName, error, days, crop,
                   loopVars, farmVars, uiVars, callVars, appVars, simVars>>

InitSetup ==
    /\ MapPageInitial
    /\ LoopNotRunning
    /\ FarmNotMounted
    /\ AppOnSetup
    /\ FarmSimNotCreated

\* onChange of the "Simulation Days" selector: setDays(Number(e.target.value))
ChangeDays(d) ==
    /\ days' = d
    /\ UNCHANGED <<location, locationName, data, loading, error, crop, requests,
                   loopVars, farmVars, uiVars, callVars, appVars, simVars>>

\* onChange of the "Crop Type" selector: setCrop(e.target.value)
ChangeCrop(c) ==
    /\ crop' = c
    /\ UNCHANGED <<location, locationName, data, loading, error, days, requests,
                   loopVars, farmVars, uiVars, callVars, appVars, simVars>>

\* handleStartGame, behind <button disabled={!location || loading}>: the five
\* setItem calls and navigate("/farm").  The route change unmounts MapPage:
\* its state is gone (a later MapPage starts from useState's initial values)
\* and the setters of click handlers still waiting act on nothing.
StartGame ==
    /\ location # "none"
    /\ ~loading
    /\ storage' = HandoffOf(crop, days, locationName, data)
    /\ route' = "/farm"
    /\ location' = "none"
    /\ locationName' = ""
    /\ data' = NoData
    /\ loading' = FALSE
    /\ error' = ""
    /\ days' = 5
    /\ crop' = "maize"
    /\ requests' = [i \in DOMAIN requests |->
                       IF requests[i].pc = "done" THEN requests[i]
                       ELSE [requests[i] EXCEPT !.pc = "unmounted"]]
    /\ UNCHANGED <<game, loopVars, farmVars, uiVars, callVars, simVars>>

\* The options of the two selectors that the user picks from here.
DaysPicked == {5, 10}

CropsPicked == {"maize", "wheat"}

UserClicksMap ==
    /\ route = "/"
    /\ Len(requests) < MaxClicks
    /\ \E l \in Locations : MapClick(l)

NetworkAnswers ==
    \E i \in 1..Len(requests) :
        \/ \E n \in {requests[i].days - 1, requests[i].days} : GeocodeResolves(i, n)
        \/ FetchRejects(i)
        \/ PowerResolves(i)

UserSelects ==
    /\ route = "/"
    /\ \/ \E d \in DaysPicked : ChangeDays(d)
       \/ \E c \in CropsPicked : ChangeCrop(c)

UserStarts ==
    /\ route = "/"
    /\ StartGame

NextSetup ==
    UserClicksMap \/ NetworkAnswers \/ UserSelects \/ UserStarts \/ FarmGameMounts

SpecSetup == InitSetup /\ [][NextSetup]_vars

\* Every click handler has run to its end.
AllSettled == \A i \in 1..Len(requests) : requests[i].pc = "done"

\* C5: once the requests of two clicks have both finished, in either order, the
\* stored weather data, location name and loading/error flags are those of the
\* second click (as long as MapPage is on screen: before Start Simulation).
C5_LastClickWins ==
    (Len(requests) >= 2 /\ AllSettled /\ storage = StorageEmpty) =>
        LET last == requests[Len(requests)]
        IN  /\ loading = FALSE
            /\ last.outcome = "ok" =>
                  /\ data = DataOf(last)
                  /\ locationName = PlaceOf(last.loc)
                  /\ error = ""
            /\ last.outcome = "failed" =>
                  /\ data = NoData
                  /\ error # ""

\* The only click so far ended in the catch block, at the given await.
OnlyClickFailedAt(stage) ==
    /\ Len(requests) = 1
    /\ requests[1].pc = "done"
    /\ requests[1].failedAt = stage

\* Start Simulation has been pressed and FarmGame's effect has run.
StartedAndMounted == storage # StorageEmpty /\ (route = "/" \/ game)

\* C13: when the reverse-geocoding request of a click fails, the weather series
\* is still fetched and stored, the location gets a name, and Start Simulation
\* then leads to a running simulation.
C13_GeocodeFailureDoesNotBlock ==
    OnlyClickFailedAt("geocode") =>
        /\ storage = StorageEmpty => (~data.isNull /\ locationName # "")
        /\ StartedAndMounted => (game /\ ~storage.weatherData.isNull)

\* C14: when the weather request of a click fails, a series is available all
\* the same, and Start Simulation then leads to a simulation running on it.
C14_UpstreamFailureDegrades ==
    OnlyClickFailedAt("power") =>
        /\ storage = StorageEmpty => ~data.isNull
        /\ StartedAndMounted =>
              (game /\ ~storage.weatherData.isNull /\ rainPattern # <<>>)

\* C16: the record written by handleStartGame is consistent with itself:
\* selectedDays is the length of the stored series, and the stored
\* soil-moisture series is the one computed with the coefficient of selectedCrop.
C16_HandoffConsistent ==
    (storage # StorageEmpty /\ ~storage.weatherData.isNull) =>
        LET w == storage.weatherData
        IN  /\ storage.selectedDays = Len(w.precip)
            /\ \E l \in Locations :
                  w = JsonData(MakeData(WeatherAt(l, Len(w.precip)), storage.selectedCrop))

\* The same for the runs in which the loop over the dates made exactly days
\* entries and the user left the selectors alone after the last click.
HandoffConsistentWhenUntouched ==
    (storage # StorageEmpty /\ ~storage.weatherData.isNull) =>
        LET w == storage.weatherData
        IN  \A i \in DOMAIN requests :
              (/\ requests[i].days = storage.selectedDays
               /\ requests[i].crop = storage.selectedCrop
               /\ requests[i].ndates = requests[i].days
               /\ w = JsonData(DataOf(requests[i])))
              => /\ storage.selectedDays = Len(w.precip)
                 /\ w = JsonData(MakeData(WeatherAt(requests[i].loc, Len(w.precip)),
                                          storage.selectedCrop))

-----------------------------------------------------------------------------
\* The soil-moisture loop of the click handler, one iteration per step, over
\* every series of up to MaxSeries upstream days and every crop.

InitLoop ==
    /\ MapPageInitial
    /\ \E c \in Crops : kc = KcOf(c)
    /\ aw = (fc_mm * UnitsPerMm) \div 2            \* let aw = fc_mm * 0.5
    /\ eto_series = <<>>
    /\ soil_series = <<>>
    /\ FarmNotMounted
    /\ AppOnSetup
    /\ FarmSimNotCreated

\* One iteration of for (let i = 0; i < dates.length; i++) on the day w.
LoopDay(w) ==
    LET eto == DayETo(w)
        aw2 == BalanceDay(aw, w.pr, eto, kc)
    IN  /\ eto_series' = Append(eto_series, eto)
        /\ aw' = aw2
        /\ soil_series' = Append(soil_series, ToFixed2(aw2))
        /\ UNCHANGED <<kc, mapVars, farmVars, uiVars, callVars, appVars, simVars>>

NextLoop ==
    /\ Len(soil_series) < MaxSeries
    /\ \E w \in UpstreamDays : LoopDay(w)

SpecLoop == InitLoop /\ [][NextLoop]_vars

\* C10: after each day's update the available water lies in [0, fieldCapacity],
\* whatever the precipitation and ETo of the days so far.
C10_AvailableWaterInRange ==
    soil_series # <<>> => InRange(aw, 0, fc_mm * UnitsPerMm)

\* As long as no day's ETo is NaN, the balance does stay in [0, fieldCapacity].
AvailableWaterInRangeUnlessNaN ==
    (\A i \in 1..Len(eto_series) : ~IsNaN(eto_series[i]))
        => /\ InRange(aw, 0, fc_mm * UnitsPerMm)
           /\ \A i \in 1..Len(soil_series) : InRange(soil_series[i], 0, 100 * fc_mm)

-----------------------------------------------------------------------------
\* Properties of the simulation.

InProgress == day <= Len(rainPattern)

Complete == day > Len(rainPattern)

\* A handleAction call that got past its guard happens in this step.
Stepped == steps' = steps + 1

\* The action of that call.
ActionTaken == actionsTakenToday'[Len(actionsTakenToday')]

\* C1: after any handleAction / nextDay calls, soilMoisture, nitrogen, pests
\* and cropHealth lie in [0,100] and marketPrice in [0.8,1.5].
C1_BoundedFieldsInRange ==
    lastCall # "init" =>
        /\ InRange(soilMoisture, 0, 10000)
        /\ InRange(nitrogen, 0, 10000)
        /\ InRange(pests, 0, 10000)
        /\ InRange(cropHealth, 0, 10000)
        /\ InRange(marketPrice, 80, 150)

\* C2: sustainability stays within [0,100] whatever the rainfall and the actions.
C2_SustainabilityInRange == InRange(sustainability, 0, 10000)

\* C3: after exactly as many nextDay calls as the series has days the season is
\* Complete (day > seriesLength, end modal shown, summary of the final figures),
\* and from then on a handleAction call changes no field of the farm state.
C3_SeasonCompletes ==
    /\ [](nextDayCalls = Len(rainPattern) =>
            /\ day > Len(rainPattern)
            /\ showEndModal
            /\ endSummary = <<money, sustainability, cropHealth>>)
    /\ [][(day > Len(rainPattern) /\ lastCall' = "handleAction")
            => farmVars' = farmVars]_vars

C3_Witness ==
    /\ nextDayCalls = Len(rainPattern)
    /\ day > Len(rainPattern)
    /\ lastCall = "handleAction"
    /\ steps > 0

\* C4: at most one handleAction takes effect between two nextDay calls.
C4_OneActionPerDay == Len(actionsTakenToday) <= 1

\* C6: once an action has been applied, cropHealth is the weighted formula
\* clamp((soilMoisture*0.4 + nitrogen*0.4 + (100 - pests)*0.2) / 1.5, 0, 100)
\* of the current soilMoisture, nitrogen and pests.
C6_CropHealthFormula ==
    steps > 0 =>
        cropHealth =
            Max(0, Min(10000,
                (40 * soilMoisture + 40 * nitrogen + 20 * (10000 - pests)) \div 150))

C6_Witness ==
    /\ lastCall = "handleAction"
    /\ InProgress
    /\ cropHealth > 4000
    /\ pests > 1500
    /\ soilMoisture = 10000

\* C7: one handleAction step takes soilMoisture to
\* clamp(old + rainDelta + actionDelta, 0, 100), rainDelta -7/-5/+6/+12 for
\* none/low/medium/high and actionDelta +10 for Irrigate, 0 otherwise.
C7_SoilMoistureStep ==
    [][Stepped =>
        LET rain == rainPattern[day]
            rainDelta == IF rain = "none" THEN -700
                         ELSE IF rain = "low" THEN -500
                         ELSE IF rain = "medium" THEN 600
                         ELSE 1200
            actionDelta == IF ActionTaken = "Irrigate" THEN 1000 ELSE 0
            sum == soilMoisture + rainDelta + actionDelta
        IN  soilMoisture' = (IF sum < 0 THEN 0 ELSE IF sum > 10000 THEN 10000 ELSE sum)
    ]_vars

\* Irrigate under medium rain from 81 gives 97; under low rain from 76.5, 81.5.
C7_Witness ==
    /\ day = 1
    /\ actionsTakenToday = <<"Irrigate">>
    /\ \/ rainPattern[1] = "medium" /\ soilMoisture = 9700
       \/ rainPattern[1] = "low" /\ soilMoisture = 8150

\* C8 (as claimed): in the scenario a single Irrigate leaves money = 10 - 3.
C8_MoneyAfterIrrigate ==
    (steps = 1 /\ actionsTakenToday = <<"Irrigate">>) => money = 1000 - 300

\* C8 (amended): in the scenario a single Irrigate leaves
\* money = 10 - 3 + 2 * marketPrice, marketPrice being the price before the step.
C8_MoneyAfterIrrigateWithRevenue ==
    [][(steps = 0 /\ Stepped /\ ActionTaken = "Irrigate")
        => money' = 1000 - 300 + 2 * marketPrice]_vars

C8_Witness ==
    /\ steps = 1
    /\ actionsTakenToday = <<"Irrigate">>
    /\ soilMoisture = 7100
    /\ money = 1000 - 300 + 2 * 150

\* C9: one handleAction step lowers sustainability by exactly 3 for Fertilize
\* under high rain, by exactly 2 for Irrigate under medium or high rain, and
\* leaves it as it is for every other (action, rainfall) pair.
C9_SustainabilityStep ==
    [][Stepped =>
        LET rain == rainPattern[day]
        IN  sustainability' - sustainability =
              (IF ActionTaken = "Fertilize" /\ rain = "high" THEN -300
               ELSE IF ActionTaken = "Irrigate" /\ rain \in {"medium", "high"} THEN -200
               ELSE 0)
    ]_vars

C9_Witness ==
    /\ day = 1
    /\ rainPattern[1] = "high"
    /\ actionsTakenToday = <<"Fertilize", "Irrigate">>
    /\ sustainability = 8000 - 300 - 200

\* C15: every handleAction step picks the revenue tier from the cropHealth it
\* has just recomputed, which is at most 100/1.5; so the step adds 2*marketPrice
\* (recomputed cropHealth above 40) or nothing to money, never 4*marketPrice.
C15_TopTierNeverTaken ==
    [][Stepped =>
        LET cost == IF ActionTaken = "Irrigate" THEN 300
                    ELSE IF ActionTaken = "Fertilize" THEN 200
                    ELSE IF ActionTaken = "Scout" THEN 100
                    ELSE 0
        IN  /\ 3 * cropHealth' <= 2 * 10000
            /\ money' - money + cost =
                  (IF cropHealth' > 4000 THEN 2 * marketPrice ELSE 0)
    ]_vars

\* Irrigate, then Fertilize, on a first day that started with the soil full:
\* cropHealth is among the highest of the runs explored, and each step was
\* paid at the middle tier (2 * 1.00, then 2 * 0.95 or 2 * 1.05).
C15_Witness ==
    /\ steps = 2
    /\ actionsTakenToday = <<"Irrigate", "Fertilize">>
    /\ soilMoisture = 10000
    /\ cropHealth > 5000
    /\ money \in {2000 - 300 - 200 + 200 + 190, 2000 - 300 - 200 + 200 + 210}

====
